---- MODULE Spec2Model ----
(***************************************************************************)
(* Model of the EU_QA_RAG retrieval-augmented chat service:                *)
(*   src/src/async_vectorize_document.py  QdrantLayer                      *)
(*   src/src/llm.py                       RAG_LLM                          *)
(*   src/main.py                          process_message_async            *)
(*                                                                         *)
(* Text is a sequence of one-character tokens:                             *)
(*   "H"  the heading marker "###"        "n"  a newline                   *)
(*   "s"  a space                         "q", "a"  ordinary characters    *)
(*   "L"  the opening "(![]" of image markup     "R"  its closing "=)"     *)
(***************************************************************************)
EXTENDS Integers, Sequences, FiniteSets, TLC

VARIABLES
    content,              \* text of the markdown file at `path`
    obj,                  \* "new" | "ready" | "failed": the QdrantLayer/RAG_LLM construction
    documents,            \* self.documents
    document_encryption,  \* self.document_encryption (the collection identifier)
    samples,              \* self.retrieved_rag_samples
    store,                \* the Qdrant service: collection name -> collection
    run,                  \* the setup_qdrant coroutines, one record per run
    overlapped,           \* history: two setup_qdrant runs were ever active together
    req,                  \* the chat request being handled by process_message_async
    history,              \* the caller's history list
    turn                  \* number of chat requests started

vars == <<content, obj, documents, document_encryption, samples, store, run,
          overlapped, req, history, turn>>

loadVars == <<content, obj, documents, document_encryption, samples>>
setupVars == <<store, run, overlapped>>
chatVars == <<req, history, turn>>

-----------------------------------------------------------------------------
(* Bounds *)

MaxContentLen == 9      \* longest file over the plain alphabet
MaxSpacedLen == 7       \* longest file over the alphabet with spaces
MaxMarkupLen == 6       \* longest file over the alphabet with image markup
MaxRecords == 3         \* most sections of a generated file
MaxDocs == 3            \* most records of a directly drawn document set
MaxSamples == 4         \* largest retrieved_rag_samples
MaxRuns == 2            \* setup_qdrant runs
MaxTurns == 2           \* chat requests

NoValue == "None"

-----------------------------------------------------------------------------
(* String helpers: the Python str methods the parser uses *)

IsSpace(c) == c \in {"n", "s"}

Min(S) == CHOOSE x \in S : \A y \in S : x <= y

SeqsUpTo(A, m) == UNION {[1..len -> A] : len \in 0..m}

\* str.lstrip / str.rstrip / str.strip
RECURSIVE lstrip(_)
lstrip(s) == IF s # <<>> /\ IsSpace(Head(s)) THEN lstrip(Tail(s)) ELSE s

RECURSIVE rstrip(_)
rstrip(s) ==
    IF s # <<>> /\ IsSpace(s[Len(s)]) THEN rstrip(SubSeq(s, 1, Len(s) - 1)) ELSE s

strip(s) == rstrip(lstrip(s))

\* str.splitlines: a trailing newline opens no further line
RECURSIVE splitlinesFrom(_, _, _)
splitlinesFrom(s, i, cur) ==
    IF i > Len(s) THEN (IF cur = <<>> THEN <<>> ELSE <<cur>>)
    ELSE IF s[i] = "n" THEN <<cur>> \o splitlinesFrom(s, i + 1, <<>>)
    ELSE splitlinesFrom(s, i + 1, Append(cur, s[i]))

splitlines(s) == splitlinesFrom(s, 1, <<>>)

\* "\n".join(lines)
RECURSIVE join(_)
join(lines) ==
    IF lines = <<>> THEN <<>>
    ELSE IF Len(lines) = 1 THEN lines[1]
    ELSE lines[1] \o <<"n">> \o join(Tail(lines))

\* text.replace("\n", " ")
replace_newlines(s) == [i \in 1..Len(s) |-> IF s[i] = "n" THEN "s" ELSE s[i]]

-----------------------------------------------------------------------------
(* QdrantLayer._validate_and_load_md_file *)

\* the positions at which a match of \(!\[\].*?=\) opened at i can close:
\* "." matches no newline
CloseSet(s, i) ==
    {j \in (i + 1)..Len(s) : s[j] = "R" /\ \A x \in (i + 1)..(j - 1) : s[x] # "n"}

\* re.sub(r"\(!\[\].*?=\)", "", content): leftmost, non-greedy, non-overlapping
RECURSIVE re_sub_from(_, _)
re_sub_from(s, i) ==
    IF i > Len(s) THEN <<>>
    ELSE IF s[i] = "L" /\ CloseSet(s, i) # {}
         THEN re_sub_from(s, Min(CloseSet(s, i)) + 1)
         ELSE <<s[i]>> \o re_sub_from(s, i + 1)

re_sub(s) == re_sub_from(s, 1)

\* first position >= i that holds no whitespace (the greedy \s* after "###")
RECURSIVE SkipSpace(_, _)
SkipSpace(s, i) == IF i <= Len(s) /\ IsSpace(s[i]) THEN SkipSpace(s, i + 1) ELSE i

\* re.split(r"###\s*", content)
RECURSIVE re_split_from(_, _, _)
re_split_from(s, i, cur) ==
    IF i > Len(s) THEN <<cur>>
    ELSE IF s[i] = "H" THEN <<cur>> \o re_split_from(s, SkipSpace(s, i + 1), <<>>)
    ELSE re_split_from(s, i + 1, Append(cur, s[i]))

re_split(s) == re_split_from(s, 1, <<>>)

\* the record a section with at least two lines yields
SectionRecord(lines) ==
    [question |-> strip(lines[1]), answer |-> strip(join(Tail(lines)))]

\* the body of `for section in sections[1:]`: one section appends at most one record
AppendSection(docs, section) ==
    LET lines == splitlines(strip(section))
    IN  IF lines = <<>> \/ Len(lines) < 2 THEN docs
        ELSE Append(docs, SectionRecord(lines))

\* a parser that gives up at the first invalid section
RECURSIVE LoadSectionsAbort(_, _)
LoadSectionsAbort(docs, sections) ==
    IF sections = <<>> \/ AppendSection(docs, Head(sections)) = docs THEN docs
    ELSE LoadSectionsAbort(AppendSection(docs, Head(sections)), Tail(sections))

RECURSIVE LoadSections(_, _)
LoadSections(docs, sections) ==
    IF sections = <<>> THEN docs
    ELSE LoadSections(AppendSection(docs, Head(sections)), Tail(sections))

\* the sections the loop visits: sections[1:]
Sections(text) == Tail(re_split(re_sub(text)))

ParseDocuments(text) == LoadSections(<<>>, Sections(text))

\* hashlib.sha256(...).hexdigest(), taken as collision-free: the digest stands for
\* the byte string it was computed from
sha256(bytes) == <<"sha256", bytes>>

\* an identifier computed from the first question alone
DocumentEncryptionFirstOnly(docs) == sha256(docs[1].question)

DocumentEncryption(docs) ==
    LET first_question == docs[1].question
        last_question == docs[Len(docs)].question
        concatenated_questions == first_question \o last_question
    IN  sha256(concatenated_questions)

-----------------------------------------------------------------------------
(* The inputs *)

PlainAlphabet == {"H", "n", "q"}
SpacedAlphabet == {"H", "n", "s", "q"}
MarkupAlphabet == {"H", "n", "q", "L", "R"}

\* every file the parser is run on
Contents ==
    SeqsUpTo(PlainAlphabet, MaxContentLen) \cup SeqsUpTo(SpacedAlphabet, MaxSpacedLen)
        \cup SeqsUpTo(MarkupAlphabet, MaxMarkupLen)

\* a well-formed knowledge base of n sections with the questions q, qq, qqq, ...
RECURSIVE FileOf(_)
FileOf(n) ==
    IF n = 0 THEN <<"a", "n">>
    ELSE FileOf(n - 1) \o <<"H", "s">> \o [j \in 1..n |-> "q"] \o <<"n", "a", "n">>

Files == {FileOf(n) : n \in 0..MaxRecords}

\* document sets drawn directly: records whose questions are short strings
QuestionChars == {"q", "a"}
Questions == {<<c>> : c \in QuestionChars} \cup {<<c, d>> : c, d \in QuestionChars}
Records == {[question |-> qu, answer |-> <<"a">>] : qu \in Questions}
DocSets == SeqsUpTo(Records, MaxDocs) \ {<<>>}

Messages == {"hello"}
Sentinel == "Request timed out."
Replies == {"reply"}

Tasks == 1..MaxRuns

\* a collection of another document set, already in the store
OtherCollection == sha256(<<"o", "o">>)

-----------------------------------------------------------------------------
(* The external services *)

\* the embedding API's vector for a text: get_embedding submits the text with its
\* newlines replaced by spaces
get_embedding(text) == <<"embedding", replace_newlines(text)>>

EmptyCollection == [distance |-> "Cosine", points |-> {}]

\* number of records setup_qdrant uploads: self.documents[:2]
UploadCap == 2

Uploaded(docs) == SubSeq(docs, 1, IF Len(docs) < UploadCap THEN Len(docs) ELSE UploadCap)

\* the PointStruct list of upload_points: enumerate() numbers from 0
PointsOf(docs) ==
    {[id |-> idx - 1, vector |-> get_embedding(docs[idx].question), payload |-> docs[idx]] :
        idx \in 1..Len(Uploaded(docs))}

\* the store's upsert: a point replaces the stored point of the same id
Upsert(old, new) == new \cup {p \in old : \A np \in new : np.id # p.id}

WithCollection(st, name, coll) ==
    [c \in DOMAIN st \cup {name} |-> IF c = name THEN coll ELSE st[c]]

\* search(limit): the payload lists the store may answer with, nearest first; the
\* ranking by cosine similarity is the store's, so any order of distinct points
SearchResults(points, limit) ==
    LET n == IF Cardinality(points) < limit THEN Cardinality(points) ELSE limit
    IN  {[i \in 1..n |-> ranked[i].payload] :
            ranked \in {f \in [1..n -> points] : \A i, j \in 1..n : i # j => f[i] # f[j]}}

-----------------------------------------------------------------------------
(* Initial states *)

IdleRun == [pc |-> "idle", listing |-> {}, embeds |-> 0, created |-> FALSE, uploaded |-> FALSE]

IdleReq == [pc |-> "idle", message |-> NoValue, h0 |-> <<>>, expired |-> FALSE,
            found |-> NoValue, setup |-> FALSE, hits |-> <<>>, outcome |-> NoValue,
            result |-> NoValue]

InitRest ==
    /\ obj = "new"
    /\ documents = <<>>
    /\ document_encryption = <<>>
    /\ run = [t \in Tasks |-> IdleRun]
    /\ overlapped = FALSE
    /\ req = IdleReq
    /\ history = <<>>
    /\ turn = 0

Init ==
    /\ content \in Files
    /\ samples \in 1..MaxSamples
    /\ store = WithCollection(<<>>, OtherCollection, EmptyCollection)
    /\ InitRest

-----------------------------------------------------------------------------
(* RAG_LLM.__init__ / QdrantLayer.__init__ *)

\* the constructor parses the file; with no valid section it raises ValueError and
\* no object exists
Construct ==
    /\ obj = "new"
    /\ LET docs == ParseDocuments(content)
       IN  IF docs = <<>>
           THEN /\ obj' = "failed"
                /\ UNCHANGED <<documents, document_encryption>>
           ELSE /\ obj' = "ready"
                /\ documents' = docs
                /\ document_encryption' = DocumentEncryption(docs)
    /\ UNCHANGED <<content, samples, setupVars, chatVars>>

-----------------------------------------------------------------------------
(* QdrantLayer.setup_qdrant: one coroutine per run, one action per awaited call *)

Active(t) == run[t].pc \in {"listing", "listed", "created"}

\* a caller starts setup_qdrant; get_qdrant() answers without suspending and the
\* coroutine suspends in get_collections()
SetupStart(t) ==
    /\ obj = "ready"
    /\ run[t].pc = "idle"
    /\ \A u \in Tasks : u < t => run[u].pc # "idle"
    /\ run' = [run EXCEPT ![t].pc = "listing"]
    /\ overlapped' = (overlapped \/ \E u \in Tasks \ {t} : Active(u))
    /\ UNCHANGED <<loadVars, store, chatVars>>

\* a listing that waits while another run is between its listing and its upload
GetCollectionsLocked(t, ok) ==
    /\ run[t].pc = "listing"
    /\ \A u \in Tasks \ {t} : run[u].pc \notin {"listed", "created"}
    /\ run' = [run EXCEPT ![t].pc = IF ok THEN "listed" ELSE "failed",
                          ![t].listing = IF ok THEN DOMAIN store ELSE {}]
    /\ UNCHANGED <<loadVars, store, overlapped, chatVars>>

\* get_collections() answers with the names in the store, or fails in transport
GetCollections(t, ok) ==
    /\ run[t].pc = "listing"
    /\ run' = [run EXCEPT ![t].pc = IF ok THEN "listed" ELSE "failed",
                          ![t].listing = IF ok THEN DOMAIN store ELSE {}]
    /\ UNCHANGED <<loadVars, store, overlapped, chatVars>>

\* a setup that uploads the points again although the collection exists
SetupSkipReingest(t) ==
    /\ run[t].pc = "listed"
    /\ document_encryption \in run[t].listing
    /\ run' = [run EXCEPT ![t].pc = "done", ![t].uploaded = TRUE,
                          ![t].embeds = @ + Len(Uploaded(documents))]
    /\ store' = [store EXCEPT ![document_encryption].points =
                                  Upsert(@, PointsOf(documents))]
    /\ UNCHANGED <<loadVars, overlapped, chatVars>>

\* the else branch: "Collection already exists. Skipping setup."
SetupSkip(t) ==
    /\ run[t].pc = "listed"
    /\ document_encryption \in run[t].listing
    /\ run' = [run EXCEPT ![t].pc = "done"]
    /\ UNCHANGED <<loadVars, store, overlapped, chatVars>>

CreateOutcomes == {"embedding_error", "transport_error", "created", "duplicate_error",
                   "duplicate_ignored"}

\* the if branch up to create_collection: get_embedding("test") sizes the vectors
\* (a blocking call that may raise), then the store creates the collection, fails in
\* transport, or, when the name exists by now, rejects or ignores the duplicate
CreateCollection(t, outcome) ==
    /\ run[t].pc = "listed"
    /\ document_encryption \notin run[t].listing
    /\ outcome \in {"created"} => document_encryption \notin DOMAIN store
    /\ outcome \in {"duplicate_error", "duplicate_ignored"} =>
           document_encryption \in DOMAIN store
    /\ run' = [run EXCEPT
                 ![t].pc = IF outcome \in {"created", "duplicate_ignored"}
                           THEN "created" ELSE "failed",
                 ![t].embeds = @ + 1,
                 ![t].created = (outcome = "created")]
    /\ store' = IF outcome = "created"
                THEN WithCollection(store, document_encryption, EmptyCollection)
                ELSE store
    /\ UNCHANGED <<loadVars, overlapped, chatVars>>

UploadOutcomes == {"embedding_error", "transport_error", "uploaded"}

\* the rest of the if branch: the embeddings of the uploaded records are computed
\* (blocking calls that may raise), then upload_points upserts the points
UploadPoints(t, outcome) ==
    /\ run[t].pc = "created"
    /\ run' = [run EXCEPT
                 ![t].pc = IF outcome = "uploaded" THEN "done" ELSE "failed",
                 ![t].embeds = @ + (IF outcome = "embedding_error" THEN 1
                                    ELSE Len(Uploaded(documents))),
                 ![t].uploaded = (outcome = "uploaded")]
    /\ store' = IF outcome = "uploaded"
                THEN [store EXCEPT ![document_encryption].points =
                                       Upsert(@, PointsOf(documents))]
                ELSE store
    /\ UNCHANGED <<loadVars, overlapped, chatVars>>

SetupStep(t) ==
    \/ SetupStart(t)
    \/ \E ok \in BOOLEAN : GetCollections(t, ok)
    \/ SetupSkip(t)
    \/ \E outcome \in CreateOutcomes : CreateCollection(t, outcome)
    \/ \E outcome \in UploadOutcomes : UploadPoints(t, outcome)

-----------------------------------------------------------------------------
(* process_message_async, RAG_LLM.ainvoke, QdrantLayer.retrieve *)

Running == req.pc \in {"embedding", "search", "completion"}

\* Gradio calls the handler: wait_for starts ainvoke, which runs without suspending
\* into retrieve's get_embedding(message), a blocking call
StartRequest(message) ==
    /\ obj = "ready"
    /\ ~Running
    /\ turn < MaxTurns
    /\ turn' = turn + 1
    /\ req' = [IdleReq EXCEPT !.pc = "embedding", !.message = message, !.h0 = history]
    /\ UNCHANGED <<loadVars, setupVars, history>>

\* the 15 seconds of wait_for pass while ainvoke has not completed
DeadlineExpires ==
    /\ Running
    /\ ~req.expired
    /\ req' = [req EXCEPT !.expired = TRUE]
    /\ UNCHANGED <<loadVars, setupVars, history, turn>>

\* get_embedding(message) returns, and the coroutine suspends in search(); or it
\* raises, and the exception leaves ainvoke and the handler
EmbeddingReturns(ok) ==
    /\ req.pc = "embedding"
    /\ req' = IF ok THEN [req EXCEPT !.pc = "search"]
              ELSE [req EXCEPT !.pc = "done", !.outcome = "raised"]
    /\ UNCHANGED <<loadVars, setupVars, history, turn>>

\* search() answers before the deadline: not-found for an absent collection, a
\* transport error, or the hits; with the hits the prompt is built and the
\* coroutine suspends in llm.ainvoke
SearchReturns(ok) ==
    /\ req.pc = "search"
    /\ ~req.expired
    /\ LET present == document_encryption \in DOMAIN store
           setup == \E t \in Tasks : run[t].uploaded
       IN  IF ok /\ present
           THEN \E hits \in SearchResults(store[document_encryption].points, samples) :
                    req' = [req EXCEPT !.pc = "completion", !.found = "present",
                                       !.setup = setup, !.hits = hits]
           ELSE req' = [req EXCEPT !.pc = "done", !.outcome = "raised",
                                   !.found = IF present THEN NoValue ELSE "absent",
                                   !.setup = setup]
    /\ UNCHANGED <<loadVars, setupVars, history, turn>>

\* what the handler does with a completed ainvoke: append the turn, return the text
HandleResponse(response) ==
    /\ history' = Append(history, <<req.message, response>>)
    /\ req' = [req EXCEPT !.pc = "done", !.outcome = "completed", !.result = response]

\* llm.ainvoke answers before the deadline with the model's text, or fails
CompletionReturns(ok) ==
    /\ req.pc = "completion"
    /\ ~req.expired
    /\ IF ok
       THEN \E response \in Replies : HandleResponse(response)
       ELSE /\ req' = [req EXCEPT !.pc = "done", !.outcome = "raised"]
            /\ UNCHANGED history
    /\ UNCHANGED <<loadVars, setupVars, turn>>

\* what the handler does with asyncio.TimeoutError
HandleTimeout ==
    /\ req' = [req EXCEPT !.pc = "done", !.outcome = "timeout", !.result = Sentinel]
    /\ UNCHANGED history

\* the event loop can cancel ainvoke only where it is suspended in an await: in
\* search() or in llm.ainvoke, not during the blocking get_embedding call
Suspended == req.pc \in {"search", "completion"}

\* the deadline has passed and the loop runs: wait_for cancels ainvoke and raises
\* asyncio.TimeoutError into the handler
Timeout ==
    /\ Suspended
    /\ req.expired
    /\ HandleTimeout
    /\ UNCHANGED <<loadVars, setupVars, turn>>

ChatStep ==
    \/ \E message \in Messages : StartRequest(message)
    \/ DeadlineExpires
    \/ \E ok \in BOOLEAN : EmbeddingReturns(ok)
    \/ \E ok \in BOOLEAN : SearchReturns(ok)
    \/ \E ok \in BOOLEAN : CompletionReturns(ok)
    \/ Timeout

-----------------------------------------------------------------------------
(* Specifications *)

Next ==
    \/ Construct
    \/ \E t \in Tasks : SetupStep(t)
    \/ ChatStep

Spec == Init /\ [][Next]_vars

\* the parser on every bounded file, followed by one setup_qdrant run
DefaultSamples == 3

\* the store a process finds: empty, or holding the collection an earlier process
\* ingested from the same file
PriorStores(text) ==
    LET docs == ParseDocuments(text)
    IN  {<<>>} \cup
        (IF docs = <<>> THEN {}
         ELSE {WithCollection(<<>>, DocumentEncryption(docs),
                              [EmptyCollection EXCEPT !.points = PointsOf(docs)])})

InitParse ==
    /\ content \in Contents
    /\ samples = DefaultSamples
    /\ store \in PriorStores(content)
    /\ InitRest

NextParse ==
    \/ Construct
    \/ SetupStep(1)

SpecParse == InitParse /\ [][NextParse]_vars

\* the markdown text of a document set: one "### question\nanswer\n" per record
RECURSIVE Render(_)
Render(docs) ==
    IF docs = <<>> THEN <<>>
    ELSE <<"H", "s">> \o Head(docs).question \o <<"n">> \o Head(docs).answer \o <<"n">>
         \o Render(Tail(docs))

\* the constructor on the file of every bounded document set
InitIdent ==
    /\ content \in {Render(d) : d \in DocSets}
    /\ samples = DefaultSamples
    /\ store = <<>>
    /\ InitRest

SpecIdent == InitIdent /\ [][Construct]_vars

-----------------------------------------------------------------------------
(* C5: the parser skips invalid fragments and fails only on an empty result *)

Fragments == Sections(content)

TwoLines(fragment) == Len(splitlines(strip(fragment))) >= 2

ValidFragments == SelectSeq(Fragments, TwoLines)

-----------------------------------------------------------------------------
(* C6: which document sets share a collection identifier *)

Ends(docs) == <<docs[1].question, docs[Len(docs)].question>>

Concatenated(docs) == docs[1].question \o docs[Len(docs)].question

\* C6 as claimed: a document set has the identifier of the loaded one if and only
\* if it has the same first question and the same last question.
C6_SameIdIffSameEnds ==
    obj = "ready" =>
        \A d \in DocSets :
            (DocumentEncryption(d) = document_encryption) <=> (Ends(d) = Ends(documents))

\* C6 amended: a document set has the identifier of the loaded one if and only if
\* the concatenation of its first and last question is the same string; sets with
\* the same first and the same last question therefore share it, whatever lies
\* between.
C6_SameIdIffSameConcatenation ==
    obj = "ready" =>
        \A d \in DocSets :
            /\ (DocumentEncryption(d) = document_encryption)
                   <=> (Concatenated(d) = Concatenated(documents))
            /\ Ends(d) = Ends(documents) => DocumentEncryption(d) = document_encryption

\* a loaded three-record set, one set with the same ends and another middle, and
\* one set with other ends and the same identifier
C6_Witness ==
    /\ obj = "ready"
    /\ Len(documents) = 3
    /\ \E d \in DocSets :
           /\ Len(d) = 3 /\ d[2] # documents[2] /\ Ends(d) = Ends(documents)
           /\ DocumentEncryption(d) = document_encryption
    /\ \E d \in DocSets :
           /\ Ends(d) # Ends(documents)
           /\ DocumentEncryption(d) = document_encryption

-----------------------------------------------------------------------------
(* C1: the first query against a fresh store *)

\* C1: the search of the first chat request finds the collection of the document
\* set in the store, because retrieve has set it up before searching.
C1_FirstSearchFindsCollection ==
    turn = 1 => req.found # "absent"

-----------------------------------------------------------------------------
(* C2: the handler's timeout *)

\* C2: when the deadline expired before ainvoke completed, the handler returns the
\* sentinel, raises nothing and leaves history as it was; history grows only by
\* [message, response] of an ainvoke that completed within the deadline.
C2_TimeoutYieldsSentinel ==
    /\ (req.pc = "done" /\ req.expired) =>
           /\ req.outcome # "raised"
           /\ req.result = Sentinel
           /\ history = req.h0
    /\ history # req.h0 =>
           /\ req.outcome = "completed"
           /\ ~req.expired
           /\ history = Append(req.h0, <<req.message, req.result>>)

-----------------------------------------------------------------------------
(* C3: the number of records retrieve returns *)

\* C3: a search answered after a setup_qdrant run has uploaded returns at most
\* retrieved_rag_samples records, and all |documents| records when there are fewer
\* documents than that.
C3_RetrieveCount ==
    (req.found = "present" /\ req.setup) =>
        /\ Len(req.hits) <= samples
        /\ Len(documents) < samples => Len(req.hits) = Len(documents)

-----------------------------------------------------------------------------
(* C4: what setup_qdrant ingests *)

AllPoints(docs) ==
    {[id |-> i - 1, vector |-> get_embedding(docs[i].question), payload |-> docs[i]] :
        i \in 1..Len(docs)}

\* C4: once a setup_qdrant run has created and uploaded, the collection holds one
\* point per record: ids 0..n-1, the question's embedding as vector, the record as
\* payload.
C4_IngestsAllRecords ==
    \A t \in Tasks :
        (run[t].created /\ run[t].uploaded) =>
            store[document_encryption].points = AllPoints(documents)

-----------------------------------------------------------------------------
(* C7: setup_qdrant on an existing collection *)

Count(flag(_)) == Cardinality({t \in Tasks : flag(t)})

HasCreated(t) == run[t].created

HasUploaded(t) == run[t].uploaded

\* C7: the step of a setup_qdrant run that found its identifier in the listing
\* leaves the store unchanged, computes no embedding, creates and uploads nothing
\* and ends the run; and as long as no two runs were active together, at most one
\* run has created the collection and at most one has uploaded points.
C7_ExistingCollectionIsNoOp ==
    /\ [][\A t \in Tasks :
            (run[t].pc = "listed" /\ document_encryption \in run[t].listing
                /\ run'[t] # run[t]) =>
                /\ store' = store
                /\ run'[t] = [run[t] EXCEPT !.pc = "done"]
                /\ run[t].embeds = 0 /\ ~run[t].created /\ ~run[t].uploaded]_vars
    /\ [](~overlapped => Count(HasCreated) <= 1 /\ Count(HasUploaded) <= 1)

\* one run ingested, a later run found the collection and skipped
C7_Witness ==
    /\ ~overlapped
    /\ \E t, u \in Tasks :
           /\ run[t].pc = "done" /\ run[t].created /\ run[t].uploaded
           /\ run[u].pc = "done" /\ document_encryption \in run[u].listing
           /\ ~run[u].uploaded

-----------------------------------------------------------------------------
(* C8: overlapping setup_qdrant runs *)

\* C8: nothing orders two runs: a run suspended in get_collections can always be
\* answered, whatever the other runs are doing, and a run that saw its identifier
\* absent can always go on to create_collection, where the store alone decides:
\* it creates an absent collection, and rejects or ignores a duplicate.
C8_NoLockOrdersSetups ==
    \A t \in Tasks :
        /\ run[t].pc = "listing" => ENABLED GetCollections(t, TRUE)
        /\ (run[t].pc = "listed" /\ document_encryption \notin run[t].listing) =>
               IF document_encryption \in DOMAIN store
               THEN /\ ENABLED CreateCollection(t, "duplicate_error")
                    /\ ENABLED CreateCollection(t, "duplicate_ignored")
                    /\ ~ENABLED CreateCollection(t, "created")
               ELSE ENABLED CreateCollection(t, "created")

\* both runs listed the collections while the identifier was absent; one created
\* the collection and the other's create_collection met the duplicate
C8_Witness ==
    \E t, u \in Tasks :
        /\ t # u
        /\ document_encryption \notin run[t].listing
        /\ document_encryption \notin run[u].listing
        /\ run[t].created
        /\ run[u].pc = "created" /\ ~run[u].created

-----------------------------------------------------------------------------
(* C9: where the timeout can cancel a request *)

\* C9: while any of the three external calls of a request is in flight and the
\* deadline has passed, the timeout can cancel the request.
C9_TimeoutCancelsAnyCall ==
    (Running /\ req.expired) => ENABLED Timeout

-----------------------------------------------------------------------------
(* C10: aborted setup_qdrant runs *)

\* C10: when no setup_qdrant run is in progress, a collection that exists under
\* the identifier holds the points setup_qdrant uploads for the document set.
C10_NoEmptyCollectionLeftBehind ==
    ((\A t \in Tasks : ~Active(t)) /\ document_encryption \in DOMAIN store) =>
        PointsOf(documents) \subseteq store[document_encryption].points

====
